---------------------------- MODULE Spec2Model ----------------------------
(***************************************************************************)
(* Model of the 3D plant scanner: the turntable controller                 *)
(* (src/turntable_control.py), the scan sequencer                          *)
(* (src/3D Plant Scan - code/scan_control.py) and the front-end's start /  *)
(* stop handling (src/3D Plant Scan - code/scan_ui.py).                    *)
(*                                                                         *)
(* Python floats are IEEE-754 binary64.  The degree <-> microstep          *)
(* conversions of the turntable go through float division and              *)
(* multiplication followed by int(), so they are modelled bit-exactly:     *)
(* a float is a sign, a 53-bit mantissa held as a little-endian sequence   *)
(* of 14-bit limbs, and a binary exponent; every operation rounds to       *)
(* nearest, ties to even.                                                  *)
(***************************************************************************)
EXTENDS Integers, Sequences, FiniteSets, TLC

(***************************************************************************)
(* Arbitrary-precision naturals: little-endian limb sequences, <<>> is 0,  *)
(* the most significant limb is never 0.                                   *)
(***************************************************************************)
LimbBits == 14
Base == 2^LimbBits
MantBits == 53

RECURSIVE BitLenSmall(_)
BitLenSmall(n) == IF n = 0 THEN 0 ELSE 1 + BitLenSmall(n \div 2)

RECURSIVE BigStrip(_)
BigStrip(a) ==
    IF a = <<>> THEN <<>>
    ELSE IF a[Len(a)] = 0 THEN BigStrip(SubSeq(a, 1, Len(a) - 1))
    ELSE a

BigOfNat(n) == BigStrip(<<n % Base, n \div Base>>)

BigBitLen(a) ==
    IF a = <<>> THEN 0 ELSE (Len(a) - 1) * LimbBits + BitLenSmall(a[Len(a)])

RECURSIVE BigMulSmallFrom(_, _, _, _)
BigMulSmallFrom(a, v, i, carry) ==
    IF i > Len(a) THEN (IF carry = 0 THEN <<>> ELSE <<carry>>)
    ELSE LET t == a[i] * v + carry
         IN  <<t % Base>> \o BigMulSmallFrom(a, v, i + 1, t \div Base)

\* a * v for 1 <= v < Base
BigMulSmall(a, v) == BigMulSmallFrom(a, v, 1, 0)

RECURSIVE BigDivSmallFrom(_, _, _, _)
BigDivSmallFrom(a, v, i, rem) ==
    IF i = 0 THEN [q |-> <<>>, r |-> rem]
    ELSE LET t    == rem * Base + a[i]
             rest == BigDivSmallFrom(a, v, i - 1, t % v)
         IN  [q |-> rest.q \o <<t \div v>>, r |-> rest.r]

\* quotient and remainder of a by v, 1 <= v <= Base
BigDivSmall(a, v) ==
    LET d == BigDivSmallFrom(a, v, Len(a), 0)
    IN  [q |-> BigStrip(d.q), r |-> d.r]

RECURSIVE BigInc(_)
BigInc(a) ==
    IF a = <<>> THEN <<1>>
    ELSE IF a[1] + 1 < Base THEN <<a[1] + 1>> \o Tail(a)
    ELSE <<0>> \o BigInc(Tail(a))

Zeros(n) == [i \in 1..n |-> 0]

\* a * 2^k
BigShl(a, k) ==
    IF a = <<>> THEN <<>>
    ELSE Zeros(k \div LimbBits) \o BigMulSmall(a, 2^(k % LimbBits))

\* a \div 2^k
BigShr(a, k) ==
    IF k \div LimbBits >= Len(a) THEN <<>>
    ELSE BigDivSmall(SubSeq(a, k \div LimbBits + 1, Len(a)), 2^(k % LimbBits)).q

RECURSIVE BigGeFrom(_, _, _)
BigGeFrom(a, b, i) ==
    IF i = 0 THEN TRUE
    ELSE IF a[i] # b[i] THEN a[i] > b[i]
    ELSE BigGeFrom(a, b, i - 1)

\* a >= b
BigGe(a, b) ==
    IF Len(a) # Len(b) THEN Len(a) > Len(b) ELSE BigGeFrom(a, b, Len(a))

RECURSIVE BigSubFrom(_, _, _, _)
BigSubFrom(a, b, i, borrow) ==
    IF i > Len(a) THEN <<>>
    ELSE LET t == a[i] - (IF i <= Len(b) THEN b[i] ELSE 0) - borrow
         IN  IF t < 0
             THEN <<t + Base>> \o BigSubFrom(a, b, i + 1, 1)
             ELSE <<t>> \o BigSubFrom(a, b, i + 1, 0)

\* a - b for a >= b
BigSub(a, b) == BigStrip(BigSubFrom(a, b, 1, 0))

RECURSIVE NatOfBig(_)
NatOfBig(a) == IF a = <<>> THEN 0 ELSE a[1] + Base * NatOfBig(Tail(a))

(***************************************************************************)
(* binary64 values: [neg, m, e] stands for (-1)^neg * m * 2^e, with m = 0  *)
(* or a 53-bit mantissa.  The magnitudes met here (degrees, microsteps,    *)
(* their quotients) are far from the subnormal and overflow ranges.        *)
(***************************************************************************)
FZero == [neg |-> FALSE, m |-> <<>>, e |-> 0]

\* Round the exact value (M + sticky) * 2^e to 53 bits, nearest-even.
\* M has at most MantBits + LimbBits bits; sticky says that a non-zero
\* part below M's last bit was dropped.
FRound(neg, M, sticky, e) ==
    LET sh == BigBitLen(M) - MantBits
    IN  IF sh <= 0
        THEN [neg |-> neg, m |-> BigShl(M, -sh), e |-> e + sh]
        ELSE LET d    == BigDivSmall(M, 2^sh)
                 half == 2^(sh - 1)
                 up   == \/ d.r > half
                         \/ d.r = half /\ (sticky \/ d.q[1] % 2 = 1)
                 q    == IF up THEN BigInc(d.q) ELSE d.q
             IN  IF BigBitLen(q) > MantBits
                 THEN [neg |-> neg, m |-> BigShr(q, 1), e |-> e + sh + 1]
                 ELSE [neg |-> neg, m |-> q, e |-> e + sh]

\* float(n) for an int |n| < Base^2 (exact)
FloatOfInt(n) ==
    IF n = 0 THEN FZero
    ELSE FRound(n < 0, BigOfNat(IF n < 0 THEN -n ELSE n), FALSE, 0)

\* x * float(v) for an int 0 < |v| < Base
FMulInt(x, v) ==
    IF x.m = <<>> \/ v = 0 THEN FZero
    ELSE FRound(x.neg # (v < 0), BigMulSmall(x.m, IF v < 0 THEN -v ELSE v),
                FALSE, x.e)

\* x / float(v) for an int 0 < v < Base
FDivInt(x, v) ==
    IF x.m = <<>> THEN FZero
    ELSE LET d == BigDivSmall(<<0>> \o x.m, v)
         IN  FRound(x.neg, d.q, d.r # 0, x.e - LimbBits)

\* one step of restoring division of r by d, r < 2 * d: the next quotient
\* bit goes to the low end of q, and what is left of r is doubled
FDivStep(s, d) ==
    IF BigGe(s.r, d)
    THEN [q |-> BigInc(BigMulSmall(s.q, 2)),
          r |-> BigMulSmall(BigSub(s.r, d), 2)]
    ELSE [q |-> BigMulSmall(s.q, 2), r |-> BigMulSmall(s.r, 2)]

\* n such steps
RECURSIVE FDivBits(_, _, _)
FDivBits(s, d, n) ==
    IF n = 0 THEN s
    ELSE CHOOSE u \in {FDivBits(t, d, n - 1) : t \in {FDivStep(s, d)}} : TRUE

\* x / y for floats x and y, y # 0: the mantissas have MantBits bits each,
\* so MantBits + 4 steps give floor(x.m * 2^(MantBits + 3) / y.m)
FDiv(x, y) ==
    IF x.m = <<>> THEN FZero
    ELSE CHOOSE f \in
            {FRound(x.neg # y.neg, s.q, s.r # <<>>, x.e - y.e - (MantBits + 3)) :
                s \in {FDivBits([q |-> <<>>, r |-> xm], ym, MantBits + 4) :
                          xm \in {x.m}, ym \in {y.m}}} : TRUE

\* the float nearest to the rational p/q (a decimal literal such as 0.4,
\* or an int over an int)
FloatOfRatio(p, q) == FDivInt(FloatOfInt(p), q)

\* Python int(x): truncation toward zero
IntOfFloat(x) ==
    IF x.m = <<>> \/ -x.e >= MantBits THEN 0
    ELSE LET n == NatOfBig(BigShr(x.m, -x.e))
         IN  IF x.neg THEN -n ELSE n

(***************************************************************************)
(* State                                                                   *)
(***************************************************************************)
VARIABLES
    total_steps_per_rev,  \* TurntableController.total_steps_per_rev
    current_step,         \* TurntableController.current_step
    tt,                   \* the last turntable call: what it was given,
                          \* what it asked of the motor, what came back
    hist,                 \* how the calls so far line up: only successful
                          \* move_degrees(d) of one d, then one reset, then
                          \* further successful resets, or other
    calls,                \* number of direct turntable calls made so far
    angle_per_photo,      \* ScanController.angle_per_photo, the rational p/q
    num_steps,            \* ScanController.num_steps
    cameras,              \* ScanController.cameras, the configured axis list
    photo_mode,           \* PhotoController.mode
    _stop,                \* ScanController._stop, the cancellation flag
    pc,                   \* where perform_scan stands
    step,                 \* perform_scan's loop variable
    axis_idx,             \* position in self.cameras of the axis being captured
    log,                  \* what this perform_scan run has done so far
    faults,               \* number of TurnStep failures in this run
    scan_process,         \* ScanUI.scan_process as poll() shows it
    runner,               \* which OS process is running scan_control.py
    start_enabled,        \* ScanUI.start_button is enabled
    stop_enabled,         \* ScanUI.stop_button is enabled
    timer_active,         \* ScanUI.scan_timer is running
    ended,                \* how the last run started by Start Scan ended
    angle_spin,           \* ScanUI.angle_spin.value(), the rational p/q
    num_photos_label,     \* the text of ScanUI.num_photos_label
    config_angle,         \* "angle_per_photo" in config.json
    autodetect,           \* what cam_autodetect last wrote to config.json
    clicks,               \* Stop Scan clicks of ScanConfigUI that Qt has
                          \* queued and not yet dispatched
    camera_map,           \* PhotoController.camera_map: axis -> camera port
    fs,                   \* the file system: directories and files
    gphoto,               \* the gphoto2 invocations made so far, in order
    card,                 \* number of images on the card of each axis's camera
    ph,                   \* the last PhotoController call and what it did
    photo_calls           \* number of direct PhotoController calls so far

ttVars == <<total_steps_per_rev, current_step, tt, hist, calls>>
scanVars == <<angle_per_photo, num_steps, cameras, photo_mode, _stop, pc,
              step, axis_idx, log, faults>>
feVars == <<angle_spin, num_photos_label, config_angle, autodetect, clicks>>
uiVars == <<scan_process, runner, start_enabled, stop_enabled, timer_active,
            ended, feVars>>
photoVars == <<camera_map, fs, gphoto, card, ph, photo_calls>>
vars == <<ttVars, scanVars, uiVars, photoVars>>

(***************************************************************************)
(* TurntableController                                                     *)
(***************************************************************************)
steps_per_rev == 200
microsteps == 32

Abs(n) == IF n < 0 THEN -n ELSE n

\* the same product rounded to the nearest integer instead of truncated
StepsOfDegrees_nearest(degrees) ==
    LET x == FMulInt(FDivInt(degrees, 360), total_steps_per_rev)
    IN  IntOfFloat(FMulInt(x, 2)) - IntOfFloat(x)

\* line 63: int((degrees / 360.0) * self.total_steps_per_rev)
StepsOfDegrees(degrees) ==
    IntOfFloat(FMulInt(FDivInt(degrees, 360), total_steps_per_rev))

\* line 82: steps_to_move * (360.0 / self.total_steps_per_rev)
DegreesOfSteps(steps_to_move) ==
    FMulInt(FDivInt(FloatOfInt(360), total_steps_per_rev), steps_to_move)

\* What one turntable call did: the bookkeeping it leaves, whether it called
\* TurnStep and with what, whether TurnStep raised, and what the caller gets
\* ("None": the call returned normally; the except clauses only log).
Outcome(cs, called, raised, dir, steps, signed) ==
    [current_step |-> cs, called |-> called, raised |-> raised, Dir |-> dir,
     steps |-> steps, steps_to_move |-> signed, result |-> "None"]

\* move_to_step without the reduction modulo total_steps_per_rev
move_to_step_no_modulo(cs, abs_step, motor_ok) ==
    LET target        == abs_step
        steps_to_move == target - cs
        direction     == IF steps_to_move >= 0 THEN "forward" ELSE "backward"
        steps         == Abs(steps_to_move)
    IN  IF steps > 0
        THEN Outcome(IF motor_ok THEN target ELSE cs,
                     TRUE, ~motor_ok, direction, steps, steps_to_move)
        ELSE Outcome(cs, FALSE, FALSE, direction, steps, steps_to_move)

\* move_to_step(step), lines 41-57 (abs_step is its argument step)
move_to_step(cs, abs_step, motor_ok) ==
    LET target        == abs_step % total_steps_per_rev
        steps_to_move == target - cs
        direction     == IF steps_to_move >= 0 THEN "forward" ELSE "backward"
        steps         == Abs(steps_to_move)
    IN  IF steps > 0
        THEN Outcome(IF motor_ok THEN target ELSE cs,
                     TRUE, ~motor_ok, direction, steps, steps_to_move)
        ELSE Outcome(cs, FALSE, FALSE, direction, steps, steps_to_move)

\* move_degrees with the bookkeeping done before TurnStep returns
move_degrees_books_first(cs, degrees, motor_ok) ==
    LET steps_to_move == StepsOfDegrees(degrees)
        direction     == IF steps_to_move >= 0 THEN "forward" ELSE "backward"
        steps         == Abs(steps_to_move)
    IN  IF steps > 0
        THEN Outcome((cs + steps_to_move) % total_steps_per_rev,
                     TRUE, ~motor_ok, direction, steps, steps_to_move)
        ELSE Outcome(cs, FALSE, FALSE, direction, steps, steps_to_move)

\* move_degrees without the reduction modulo total_steps_per_rev
move_degrees_no_modulo(cs, degrees, motor_ok) ==
    LET steps_to_move == StepsOfDegrees(degrees)
        direction     == IF steps_to_move >= 0 THEN "forward" ELSE "backward"
        steps         == Abs(steps_to_move)
    IN  IF steps > 0
        THEN Outcome(IF motor_ok THEN cs + steps_to_move ELSE cs,
                     TRUE, ~motor_ok, direction, steps, steps_to_move)
        ELSE Outcome(cs, FALSE, FALSE, direction, steps, steps_to_move)

\* move_degrees without the "if steps > 0" guard
move_degrees_no_guard(cs, degrees, motor_ok) ==
    LET steps_to_move == StepsOfDegrees(degrees)
        direction     == IF steps_to_move >= 0 THEN "forward" ELSE "backward"
        steps         == Abs(steps_to_move)
    IN  Outcome(IF motor_ok
                THEN (cs + steps_to_move) % total_steps_per_rev
                ELSE cs,
                TRUE, ~motor_ok, direction, steps, steps_to_move)

\* move_degrees(degrees), lines 59-74
move_degrees(cs, degrees, motor_ok) ==
    LET steps_to_move == StepsOfDegrees(degrees)
        direction     == IF steps_to_move >= 0 THEN "forward" ELSE "backward"
        steps         == Abs(steps_to_move)
    IN  IF steps > 0
        THEN Outcome(IF motor_ok
                     THEN (cs + steps_to_move) % total_steps_per_rev
                     ELSE cs,
                     TRUE, ~motor_ok, direction, steps, steps_to_move)
        ELSE Outcome(cs, FALSE, FALSE, direction, steps, steps_to_move)

\* reset_position(), lines 76-84
reset_position(cs, motor_ok) ==
    IF cs # 0
    THEN move_degrees(cs, DegreesOfSteps(-cs), motor_ok)
    ELSE Outcome(cs, FALSE, FALSE, "none", 0, 0)

(***************************************************************************)
(* Direct use of a TurntableController: any caller, any arguments, the     *)
(* motor primitive free to raise.                                          *)
(***************************************************************************)
MaxCalls == 6

\* degree arguments as p/q: zero, a non-zero angle below one microstep,
\* 0.4, 0.5, the default 10, a negative angle beyond one revolution
DegreeArgs ==
    {<<0, 1>>, <<1, 100>>, <<2, 5>>, <<1, 2>>, <<10, 1>>, <<-725, 2>>}
\* absolute step arguments: negative, zero, beyond one revolution
StepArgs == {-1, 0, 6407}

NoCall == [op |-> "none", arg |-> <<0, 1>>, pre |-> 0, called |-> FALSE,
           raised |-> FALSE, Dir |-> "none", steps |-> 0,
           steps_to_move |-> 0, result |-> "None"]

Call(op, arg, pre, r) ==
    [op |-> op, arg |-> arg, pre |-> pre, called |-> r.called,
     raised |-> r.raised, Dir |-> r.Dir, steps |-> r.steps,
     steps_to_move |-> r.steps_to_move, result |-> r.result]

Fresh == [kind |-> "fresh", d |-> <<0, 1>>, n |-> 0]
Other == [kind |-> "other", d |-> <<0, 1>>, n |-> 0]

\* __init__, lines 25-28
TTConstruct ==
    /\ total_steps_per_rev = steps_per_rev * microsteps
    /\ current_step = 0
    /\ tt = NoCall

\* what a perform_scan run has done, at its start
NewLog ==
    [captures      |-> 0,      \* capture attempts (self.photo.capture calls)
     initial       |-> 0,      \* ... of them at angle 0, lines 70-77
     loop_captures |-> 0,      \* ... of them inside the step loop
     capture_failed |-> FALSE, \* some capture raised
     early_fail    |-> FALSE,  \* ... on an axis that is not the last of its
                               \* step, in a step that is not the last
     rotations     |-> 0,      \* move_degrees calls of the step loop
     move_failed   |-> FALSE,  \* TurnStep raised in a rotation of the loop
     after_fail    |-> FALSE,  \* a rotation or a capture followed such a failure
     broke         |-> FALSE,  \* the loop left through "if self._stop: break"
     resets        |-> 0,      \* reset_position calls
     cap_at_reset  |-> 0,      \* captures when reset_position was called
     rot_at_reset  |-> 0,      \* rotations when reset_position was called
     downloads     |-> 0,      \* download_all calls
     download_angle |-> <<0, 1>>, \* angle_per_photo as download_all had it
     download_failed |-> FALSE, \* download_all raised
     resets_at_download |-> 0, \* reset_position calls made before it
     raised        |-> FALSE,  \* an exception left perform_scan
     events        |-> <<>>,   \* the capture attempts and move_degrees calls
                               \* so far, in the order they were made
     stop_step     |-> -1,     \* the step in progress when stop_scan first
                               \* set the flag during a step (-1: none)
     stop_len      |-> 0,      \* Len(events) at that moment
     stop_in_run   |-> FALSE,  \* stop_scan was called after perform_scan
                               \* was entered and before it returned
     overwrote     |-> FALSE,  \* a capture attempt was given the path of an
                               \* earlier capture attempt of this run
     summary       |-> "none"] \* the message logged when the loop is over

NotEnded == [how |-> "none", resets |-> 0, current_step |-> 0]

\* config.json before cam_autodetect has written to it
NoAutodetect == [angle |-> <<0, 1>>, photos_per_camera |-> -1]

\* the widgets of ScanUI as init_ui builds them (lines 70, 122, 127, 167)
UIWidgets ==
    /\ scan_process = "None"
    /\ runner = "none"
    /\ start_enabled = TRUE
    /\ stop_enabled = FALSE
    /\ timer_active = FALSE
    /\ ended = NotEnded
    /\ clicks = 0

\* a front-end that is not used
UIUnused ==
    /\ UIWidgets
    /\ angle_spin = <<10, 1>>
    /\ num_photos_label = <<>>
    /\ config_angle = <<10, 1>>
    /\ autodetect = NoAutodetect

\* camera_map.get(axis) for an axis that has no entry
PyNone == "<None>"

NoFiles == [dirs |-> {}, files |-> {}]
NoPath == [folder |-> <<>>, name |-> <<>>]
NoPhotoCall ==
    [op |-> "none", axis |-> "", filename |-> NoPath, raised |-> "none",
     backend |-> 0, new_dirs |-> {}, new_files |-> {}, angle |-> <<0, 1>>,
     counts |-> <<>>, tried |-> {}, failed |-> {}, moved |-> {},
     deleted |-> {}, del_failed |-> {}]

\* a PhotoController that is not used
PhotoUnused ==
    /\ camera_map = <<>>
    /\ fs = NoFiles
    /\ gphoto = <<>>
    /\ card = <<>>
    /\ ph = NoPhotoCall
    /\ photo_calls = 0

\* a ScanController that is not used: the defaults of __init__
ScanUnused ==
    /\ angle_per_photo = <<10, 1>>
    /\ num_steps = 36
    /\ cameras = <<>>
    /\ photo_mode = "immediate"
    /\ _stop = FALSE
    /\ pc = "idle"
    /\ step = 0
    /\ axis_idx = 0
    /\ log = NewLog
    /\ faults = 0

TTInit ==
    /\ TTConstruct
    /\ hist = Fresh
    /\ calls = 0
    /\ ScanUnused
    /\ UIUnused
    /\ PhotoUnused

MoveDegrees ==
    /\ calls < MaxCalls
    /\ \E d \in DegreeArgs, motor_ok \in BOOLEAN :
        \E r \in {move_degrees(current_step, FloatOfRatio(d[1], d[2]), motor_ok)} :
            /\ current_step' = r.current_step
            /\ tt' = Call("move_degrees", d, current_step, r)
            /\ hist' = IF /\ ~r.raised
                          /\ \/ hist.kind = "fresh"
                             \/ hist.kind = "moves" /\ hist.d = d
                       THEN [kind |-> "moves", d |-> d, n |-> hist.n + 1]
                       ELSE Other
    /\ calls' = calls + 1
    /\ UNCHANGED <<total_steps_per_rev, scanVars, uiVars, photoVars>>

MoveToStep ==
    /\ calls < MaxCalls
    /\ \E s \in StepArgs, motor_ok \in BOOLEAN :
        \E r \in {move_to_step(current_step, s, motor_ok)} :
            /\ current_step' = r.current_step
            /\ tt' = Call("move_to_step", <<s, 1>>, current_step, r)
    /\ hist' = Other
    /\ calls' = calls + 1
    /\ UNCHANGED <<total_steps_per_rev, scanVars, uiVars, photoVars>>

ResetPosition ==
    /\ calls < MaxCalls
    /\ \E motor_ok \in BOOLEAN :
        \E r \in {reset_position(current_step, motor_ok)} :
            /\ current_step' = r.current_step
            /\ tt' = Call("reset_position", <<0, 1>>, current_step, r)
            /\ hist' = IF ~r.raised /\ hist.kind \in {"fresh", "moves"}
                       THEN [hist EXCEPT !.kind = "moves_reset"]
                       ELSE IF ~r.raised
                               /\ hist.kind \in {"moves_reset", "reset_again"}
                       THEN [hist EXCEPT !.kind = "reset_again"]
                       ELSE Other
    /\ calls' = calls + 1
    /\ UNCHANGED <<total_steps_per_rev, scanVars, uiVars, photoVars>>

TTNext == MoveDegrees \/ MoveToStep \/ ResetPosition

SpecTT == TTInit /\ [][TTNext]_vars

(***************************************************************************)
(* ScanController ("3D Plant Scan - code/scan_control.py")                 *)
(***************************************************************************)
AXES == <<"Z", "Y", "Oblique">>

Digit(d) == <<"0", "1", "2", "3", "4", "5", "6", "7", "8", "9">>[d + 1]

RECURSIVE Digits(_)
Digits(n) == IF n < 10 THEN <<Digit(n)>> ELSE Digits(n \div 10) \o <<Digit(n % 10)>>

\* f"{angle:03d}"
RECURSIVE Pad3(_)
Pad3(d) == IF Len(d) < 3 THEN Pad3(<<"0">> \o d) ELSE d

\* line 123: angle = float(config.get("angle_per_photo", 10)); the pair
\* <<p, q>> stands for the float nearest to p/q (<<18, 5>> is 3.6,
\* <<360, 7>> is 51.42857142857143)
AngleFloat(angle) == FloatOfRatio(angle[1], angle[2])

\* 360 / angle_per_photo rounded up to an integer, as the front-end's
\* estimate does
NumSteps_ceil(angle) ==
    LET x == FDiv(FloatOfInt(360), AngleFloat(angle))
    IN  IF -x.e < MantBits /\ BigShl(BigShr(x.m, -x.e), -x.e) # x.m
        THEN IntOfFloat(x) + 1
        ELSE IntOfFloat(x)

\* line 42: int(360 / angle_per_photo)
NumSteps(angle) == IntOfFloat(FDiv(FloatOfInt(360), AngleFloat(angle)))

\* line 81: for step in range(1, self.num_steps) - whether the loop has a
\* next value of step
InRange_inclusive(s, n) == s <= n

InRange(s, n) == s < n

MaxMotorFaults == 2

\* angle_per_photo values p/q: 10 (36 steps), 50 (7, short of a full turn),
\* 22.5 (16), 90 (4), 180 (2), 360 (1), 720 (0)
ScanAngles ==
    {<<10, 1>>, <<50, 1>>, <<45, 2>>, <<90, 1>>, <<180, 1>>, <<360, 1>>,
     <<720, 1>>}
\* load_camera_config, lines 35-36: the axes of AXES that have a camera
CameraLists == {<<>>, <<"Z">>, <<"Z", "Y">>, <<"Y", "Oblique">>, AXES}

\* ScanController.__init__, lines 40-53, with a new TurntableController
ScanConstruct(angle, cams, mode) ==
    /\ angle_per_photo = angle
    /\ num_steps = NumSteps(angle)
    /\ cameras = cams
    /\ photo_mode = mode
    /\ _stop = FALSE
    /\ TTConstruct

ScanInit ==
    /\ \E angle \in ScanAngles, cams \in CameraLists,
          mode \in {"immediate", "sdcard"} : ScanConstruct(angle, cams, mode)
    /\ hist = Other
    /\ calls = 0
    /\ pc = "idle"
    /\ step = 0
    /\ axis_idx = 0
    /\ log = NewLog
    /\ faults = 0
    /\ UIUnused
    /\ PhotoUnused

\* May TurnStep raise now?
MotorOutcomes == IF faults < MaxMotorFaults THEN BOOLEAN ELSE {TRUE}

\* line 64: perform_scan is called; its first statement has yet to run
PerformScan ==
    /\ pc = "idle"
    /\ pc' = "entered"
    /\ log' = NewLog
    /\ UNCHANGED <<photoVars, uiVars, ttVars, angle_per_photo, num_steps, cameras, photo_mode,
                   _stop, step, axis_idx, faults>>

\* lines 65-66: self._stop = False
ClearStop ==
    /\ pc = "entered"
    /\ _stop' = FALSE
    /\ axis_idx' = 1
    /\ pc' = IF cameras = <<>> THEN "check" ELSE "initial"
    /\ step' = 1
    /\ UNCHANGED <<photoVars, uiVars, ttVars, angle_per_photo, num_steps, cameras, photo_mode,
                   log, faults>>

\* the angle of the step after s
AngleName_next(s) == IntOfFloat(FMulInt(AngleFloat(angle_per_photo), s + 1))

\* lines 73, 85, 91: the angle in a photo's file name, int(angle) with
\* angle = step * self.angle_per_photo (0 for the initial photos)
AngleName(s) == IntOfFloat(FMulInt(AngleFloat(angle_per_photo), s))

\* line 64: def perform_scan(self, label="object")
ScanLabel == "object"

\* lines 73, 91: self.cameras.index(axis)+1, index being the 0-based
\* position of the first element equal to axis
CameraNumber(axis) ==
    LET index == CHOOSE k \in 0..(Len(cameras) - 1) :
                    /\ cameras[k + 1] = axis
                    /\ \A j \in 0..(k - 1) : cameras[j + 1] # axis
    IN  index + 1

\* lines 72-73, 90-91:
\* f"{label}/{axis}/camera{...} - {axis} - angle{int(angle):03d}.jpg"
CapturePath(axis, n) ==
    [folder |-> <<ScanLabel, axis>>,
     name   |-> <<"camera">> \o Digits(CameraNumber(axis))
                    \o <<" - ", axis, " - angle">> \o Pad3(Digits(n))
                    \o <<".jpg">>]

\* a capture attempt: which photo, where it is to go, and how many
\* move_degrees calls this run had issued before it
CaptureEvent(in_loop, s) ==
    CHOOSE e \in {[kind |-> "capture", in_loop |-> in_loop, step |-> s,
                   axis |-> cameras[axis_idx], angle |-> n,
                   path |-> CapturePath(cameras[axis_idx], n),
                   moves |-> log.rotations] : n \in {AngleName(s)}} : TRUE

\* the rotation of step s towards the absolute angle s * angle_per_photo
RotationOf_target(s) == <<s * angle_per_photo[1], angle_per_photo[2]>>

\* line 87: the argument of move_degrees at step s, self.angle_per_photo
RotationOf(s) == angle_per_photo

\* a move_degrees call of the step loop: its argument and what it asked of
\* the motor
MoveEvent(s, degrees, r) ==
    [kind |-> "move", in_loop |-> TRUE, step |-> s, axis |-> "",
     angle |-> AngleName(s), op |-> "move_degrees", arg |-> degrees,
     Dir |-> r.Dir, steps |-> r.steps]

\* the log after the capture attempt e
CaptureLogged(e, capture_ok) ==
    [log EXCEPT !.captures = @ + 1,
                !.events = Append(@, e),
                !.initial = IF e.in_loop THEN @ ELSE @ + 1,
                !.loop_captures = IF e.in_loop THEN @ + 1 ELSE @,
                !.capture_failed = @ \/ ~capture_ok,
                !.early_fail = @ \/ (~capture_ok /\ axis_idx < Len(cameras)
                                      /\ (e.in_loop => step < num_steps - 1)),
                !.after_fail = @ \/ (e.in_loop /\ log.move_failed),
                !.overwrote = @ \/ \E i \in 1..Len(log.events) :
                    /\ log.events[i].kind = "capture"
                    /\ log.events[i].path = e.path]

\* one capture attempt of the for loop over self.cameras: capture() returns
\* or raises, and the except clause logs and goes on
CaptureAttempt(in_loop, capture_ok) ==
    CHOOSE l \in {CaptureLogged(e, capture_ok) :
                    e \in {CaptureEvent(in_loop, IF in_loop THEN step ELSE 0)}} :
        TRUE

\* lines 68-78: the photo at angle 0 on the next axis
InitialCapture ==
    /\ pc = "initial"
    /\ \E capture_ok \in BOOLEAN : log' = CaptureAttempt(FALSE, capture_ok)
    /\ IF axis_idx < Len(cameras)
       THEN /\ axis_idx' = axis_idx + 1
            /\ pc' = "initial"
       ELSE /\ axis_idx' = 1
            /\ pc' = "check"
    /\ UNCHANGED <<photoVars, uiVars, ttVars, angle_per_photo, num_steps, cameras, photo_mode,
                   _stop, step, faults>>

\* the cancellation check with a break that leaves perform_scan at once
LoopCheck_break_returns ==
    /\ pc = "check"
    /\ IF ~InRange(step, num_steps)
       THEN /\ pc' = "reset"
            /\ log' = log
       ELSE IF _stop
       THEN /\ pc' = "returned"
            /\ log' = [log EXCEPT !.broke = TRUE]
       ELSE /\ pc' = "rotate"
            /\ log' = log
    /\ UNCHANGED <<photoVars, uiVars, ttVars, angle_per_photo, num_steps, cameras, photo_mode,
                   _stop, step, axis_idx, faults>>

\* the loop head without the cancellation check
LoopCheck_ignores_stop ==
    /\ pc = "check"
    /\ pc' = IF InRange(step, num_steps) THEN "rotate" ELSE "reset"
    /\ log' = log
    /\ UNCHANGED <<photoVars, uiVars, ttVars, angle_per_photo, num_steps, cameras, photo_mode,
                   _stop, step, axis_idx, faults>>

\* lines 81-84: the next value of step, and the cancellation check
LoopCheck ==
    /\ pc = "check"
    /\ IF ~InRange(step, num_steps)
       THEN /\ pc' = "reset"
            /\ log' = log
       ELSE IF _stop
       THEN /\ pc' = "reset"
            /\ log' = [log EXCEPT !.broke = TRUE]
       ELSE /\ pc' = "rotate"
            /\ log' = log
    /\ UNCHANGED <<photoVars, uiVars, ttVars, angle_per_photo, num_steps, cameras, photo_mode,
                   _stop, step, axis_idx, faults>>

\* lines 85-87: self.turntable.move_degrees(self.angle_per_photo)
Rotate ==
    /\ pc = "rotate"
    /\ \E motor_ok \in MotorOutcomes :
       \E r \in {move_degrees(current_step, AngleFloat(RotationOf(step)),
                              motor_ok)} :
            /\ current_step' = r.current_step
            /\ tt' = Call("move_degrees", RotationOf(step), current_step, r)
            /\ faults' = IF r.raised THEN faults + 1 ELSE faults
            /\ log' = [log EXCEPT !.rotations = @ + 1,
                                  !.events = Append(@, MoveEvent(step,
                                                 RotationOf(step), r)),
                                  !.move_failed = @ \/ r.raised,
                                  !.after_fail = @ \/ log.move_failed]
    /\ IF cameras = <<>>
       THEN /\ pc' = "check"
            /\ step' = step + 1
       ELSE /\ pc' = "capture"
            /\ step' = step
    /\ axis_idx' = 1
    /\ UNCHANGED <<photoVars, uiVars, total_steps_per_rev, hist, calls, angle_per_photo,
                   num_steps, cameras, photo_mode, _stop>>

\* the captures of a step given up at the first one that fails
Capture_failure_breaks ==
    /\ pc = "capture"
    /\ \E capture_ok \in BOOLEAN :
        /\ log' = CaptureAttempt(TRUE, capture_ok)
        /\ IF capture_ok /\ axis_idx < Len(cameras)
           THEN /\ axis_idx' = axis_idx + 1
                /\ pc' = "capture"
                /\ step' = step
           ELSE /\ axis_idx' = 1
                /\ pc' = "check"
                /\ step' = step + 1
    /\ UNCHANGED <<photoVars, uiVars, ttVars, angle_per_photo, num_steps, cameras, photo_mode,
                   _stop, faults>>

\* lines 88-96: the photo of this step on the next axis
Capture ==
    /\ pc = "capture"
    /\ \E capture_ok \in BOOLEAN : log' = CaptureAttempt(TRUE, capture_ok)
    /\ IF axis_idx < Len(cameras)
       THEN /\ axis_idx' = axis_idx + 1
            /\ pc' = "capture"
            /\ step' = step
       ELSE /\ axis_idx' = 1
            /\ pc' = "check"
            /\ step' = step + 1
    /\ UNCHANGED <<photoVars, uiVars, ttVars, angle_per_photo, num_steps, cameras, photo_mode,
                   _stop, faults>>

\* line 98: logger.info("Scan complete."), whichever way the loop ended
LoopOverMessage == "Scan complete."

\* lines 98-103: self.turntable.reset_position()
Reset ==
    /\ pc = "reset"
    /\ \E motor_ok \in MotorOutcomes :
       \E r \in {reset_position(current_step, motor_ok)} :
            /\ current_step' = r.current_step
            /\ tt' = Call("reset_position", <<0, 1>>, current_step, r)
            /\ faults' = IF r.raised THEN faults + 1 ELSE faults
    /\ log' = [log EXCEPT !.resets = @ + 1,
                          !.cap_at_reset = log.captures,
                          !.rot_at_reset = log.rotations,
                          !.summary = LoopOverMessage]
    /\ pc' = IF photo_mode = "sdcard" THEN "download" ELSE "returned"
    /\ UNCHANGED <<photoVars, uiVars, total_steps_per_rev, hist, calls, angle_per_photo,
                   num_steps, cameras, photo_mode, _stop, step, axis_idx>>

\* photo_control.py line 110:
\* def download_all(self, label="scan", angle_per_photo=90)
DefaultDownloadAngle == <<90, 1>>

\* photo_control.py line 150: angle = int(idx * angle_per_photo)
OutAngle(idx, angle) == IntOfFloat(FMulInt(AngleFloat(angle), idx))

\* download_all with its exception leaving perform_scan
Download_failure_escapes ==
    /\ pc = "download"
    /\ \E download_ok \in BOOLEAN :
        /\ log' = [log EXCEPT !.downloads = @ + 1,
                              !.download_angle = DefaultDownloadAngle,
                              !.download_failed = ~download_ok,
                              !.resets_at_download = log.resets,
                              !.raised = ~download_ok]
        /\ pc' = IF download_ok THEN "returned" ELSE "raised"
    /\ UNCHANGED <<photoVars, uiVars, ttVars, angle_per_photo, num_steps, cameras, photo_mode,
                   _stop, step, axis_idx, faults>>

\* lines 105-112: in sdcard mode self.photo.download_all(label=label), which
\* leaves angle_per_photo to its default; its failure is logged
Download ==
    /\ pc = "download"
    /\ \E download_ok \in BOOLEAN :
        log' = [log EXCEPT !.downloads = @ + 1,
                           !.download_angle = DefaultDownloadAngle,
                           !.download_failed = ~download_ok,
                           !.resets_at_download = log.resets]
    /\ pc' = "returned"
    /\ UNCHANGED <<photoVars, uiVars, ttVars, angle_per_photo, num_steps, cameras, photo_mode,
                   _stop, step, axis_idx, faults>>

\* stop_scan, lines 114-115, from another execution context
StopScan ==
    /\ _stop' = TRUE
    /\ log' = IF pc \in {"rotate", "capture"} /\ log.stop_step = -1
              THEN [log EXCEPT !.stop_step = step,
                               !.stop_len = Len(log.events),
                               !.stop_in_run = TRUE]
              ELSE IF pc \notin {"idle", "returned", "raised"}
              THEN [log EXCEPT !.stop_in_run = TRUE]
              ELSE log
    /\ UNCHANGED <<photoVars, uiVars, ttVars, angle_per_photo, num_steps, cameras, photo_mode,
                   pc, step, axis_idx, faults>>

ScanNext ==
    \/ PerformScan
    \/ ClearStop
    \/ InitialCapture
    \/ LoopCheck
    \/ Rotate
    \/ Capture
    \/ Reset
    \/ Download
    \/ StopScan

SpecScan == ScanInit /\ [][ScanNext]_vars

(***************************************************************************)
(* A scan that nobody cancels, in immediate mode, at angles from the low   *)
(* and the high end of the front-end's spin box (0.5 .. 180.0).            *)
(***************************************************************************)
\* 0.5 (720 steps), 2.5 (144), 179.5 (2)
NameAngles == {<<1, 2>>, <<5, 2>>, <<359, 2>>}

NamesInit ==
    /\ \E angle \in NameAngles, cams \in {<<"Z">>, <<"Y", "Oblique">>} :
        ScanConstruct(angle, cams, "immediate")
    /\ hist = Other
    /\ calls = 0
    /\ pc = "idle"
    /\ step = 0
    /\ axis_idx = 0
    /\ log = NewLog
    /\ faults = 0
    /\ UIUnused
    /\ PhotoUnused

NamesNext ==
    \/ PerformScan
    \/ ClearStop
    \/ InitialCapture
    \/ LoopCheck
    \/ Rotate
    \/ Capture
    \/ Reset

SpecNames == NamesInit /\ [][NamesNext]_vars

(***************************************************************************)
(* Construction of a ScanController alone, over many angles: every         *)
(* multiple of 0.5 up to 360 (the front-end's spin box moves in steps of   *)
(* 0.5), and values that are not dyadic.                                   *)
(***************************************************************************)
MaxAngle == 360

CtorAngles ==
    {<<p, q>> : p \in 1..MaxAngle, q \in {1, 2, 7}} \cup {<<18, 5>>, <<1, 10>>}

CtorInit ==
    /\ TTConstruct
    /\ hist = Other
    /\ calls = 0
    /\ ScanUnused
    /\ UIUnused
    /\ PhotoUnused

\* ScanController(angle_per_photo=angle, ...), lines 40-53, once
ScanControllerInit ==
    /\ calls = 0
    /\ calls' = 1
    /\ \E angle \in CtorAngles, cams \in {<<"Z">>, AXES} :
        /\ angle_per_photo' = angle
        /\ num_steps' = NumSteps(angle)
        /\ cameras' = cams
    /\ photo_mode' = "immediate"
    /\ _stop' = FALSE
    /\ total_steps_per_rev' = steps_per_rev * microsteps
    /\ current_step' = 0
    /\ tt' = NoCall
    /\ UNCHANGED <<hist, pc, step, axis_idx, log, faults, uiVars, photoVars>>

CtorNext == ScanControllerInit

SpecCtor == CtorInit /\ [][CtorNext]_vars

(***************************************************************************)
(* The root-level ScanController (src/scan_control.py): no photo before    *)
(* the first move, no reset, no download.                                  *)
(***************************************************************************)
RootAngles == {<<10, 1>>, <<45, 2>>, <<90, 1>>, <<180, 1>>, <<360, 1>>, <<720, 1>>}
\* line 19: self.cameras = cameras or ["Z", "Y", "Oblique"]
RootCameraLists == {<<"Z">>, <<"Z", "Y">>, <<"Y", "Oblique">>, AXES}

\* ScanController.__init__ of src/scan_control.py, lines 16-26
RootScanInit ==
    /\ \E angle \in RootAngles, cams \in RootCameraLists :
        ScanConstruct(angle, cams, "immediate")
    /\ hist = Other
    /\ calls = 0
    /\ pc = "root_idle"
    /\ step = 0
    /\ axis_idx = 0
    /\ log = NewLog
    /\ faults = 0
    /\ UIUnused
    /\ PhotoUnused

\* perform_scan of src/scan_control.py, lines 28-31
RootPerformScan ==
    /\ pc = "root_idle"
    /\ _stop' = FALSE
    /\ log' = NewLog
    /\ step' = 0
    /\ axis_idx' = 1
    /\ pc' = "root_check"
    /\ UNCHANGED <<photoVars, uiVars, ttVars, angle_per_photo, num_steps, cameras, photo_mode,
                   faults>>

\* lines 31-34 and 47: for step in range(self.num_steps), the cancellation
\* check, and the return when the loop is over
RootLoopCheck ==
    /\ pc = "root_check"
    /\ IF ~(step < num_steps)
       THEN /\ pc' = "returned"
            /\ log' = log
       ELSE IF _stop
       THEN /\ pc' = "returned"
            /\ log' = [log EXCEPT !.broke = TRUE]
       ELSE /\ pc' = "root_rotate"
            /\ log' = log
    /\ UNCHANGED <<photoVars, uiVars, ttVars, angle_per_photo, num_steps, cameras, photo_mode,
                   _stop, step, axis_idx, faults>>

\* lines 35-37: self.turntable.move_degrees(self.angle_per_photo)
RootRotate ==
    /\ pc = "root_rotate"
    /\ \E motor_ok \in MotorOutcomes :
       \E r \in {move_degrees(current_step, AngleFloat(angle_per_photo),
                              motor_ok)} :
            /\ current_step' = r.current_step
            /\ tt' = Call("move_degrees", angle_per_photo, current_step, r)
            /\ faults' = IF r.raised THEN faults + 1 ELSE faults
            /\ log' = [log EXCEPT !.rotations = @ + 1,
                                  !.events = Append(@, MoveEvent(step,
                                                 angle_per_photo, r)),
                                  !.move_failed = @ \/ r.raised,
                                  !.after_fail = @ \/ log.move_failed]
    /\ pc' = "root_capture"
    /\ axis_idx' = 1
    /\ UNCHANGED <<photoVars, uiVars, total_steps_per_rev, hist, calls, angle_per_photo,
                   num_steps, cameras, photo_mode, _stop, step>>

\* lines 38-46: the photo of this step on the next axis
RootCapture ==
    /\ pc = "root_capture"
    /\ \E capture_ok \in BOOLEAN : log' = CaptureAttempt(TRUE, capture_ok)
    /\ IF axis_idx < Len(cameras)
       THEN /\ axis_idx' = axis_idx + 1
            /\ pc' = "root_capture"
            /\ step' = step
       ELSE /\ axis_idx' = 1
            /\ pc' = "root_check"
            /\ step' = step + 1
    /\ UNCHANGED <<photoVars, uiVars, ttVars, angle_per_photo, num_steps, cameras, photo_mode,
                   _stop, faults>>

\* stop_scan of src/scan_control.py, lines 49-50
RootStopScan ==
    /\ _stop' = TRUE
    /\ UNCHANGED <<photoVars, uiVars, ttVars, angle_per_photo, num_steps, cameras, photo_mode,
                   pc, step, axis_idx, log, faults>>

RootNext ==
    \/ RootPerformScan
    \/ RootLoopCheck
    \/ RootRotate
    \/ RootCapture
    \/ RootStopScan

SpecRoot == RootScanInit /\ [][RootNext]_vars

(***************************************************************************)
(* The in-process front-end (src/scan_ui.py): Start Scan builds a          *)
(* ScanController and calls perform_scan in the handler itself, on the     *)
(* thread that runs the Qt event loop; a click is dispatched to its        *)
(* handler only when no handler is running.                                *)
(***************************************************************************)
MaxClicks == 2

\* angle_spin (a QSpinBox, 1 .. 90) and the axes with a camera assigned,
\* in the order of AXES (update_assignments, lines 74-77)
RootUIAngles == {<<45, 1>>, <<90, 1>>}
RootUICameraLists == {<<"Z">>, <<"Z", "Y">>}

RootUINumSteps == [angle \in RootUIAngles |-> NumSteps(angle)]

\* ScanConfigUI.__init__, lines 20-26: self.scan_controller = None
RootUIInit ==
    /\ TTConstruct
    /\ hist = Other
    /\ calls = 0
    /\ angle_per_photo = <<10, 1>>
    /\ num_steps = 36
    /\ cameras = <<>>
    /\ photo_mode = "immediate"
    /\ _stop = FALSE
    /\ pc = "root_none"
    /\ step = 0
    /\ axis_idx = 0
    /\ log = NewLog
    /\ faults = 0
    /\ UIUnused
    /\ PhotoUnused

\* Is a handler of the front-end running?
RootUIBusy == pc \in {"root_check", "root_rotate", "root_capture"}

\* save_and_start_scan and start_scan, lines 93-124, up to the first step
\* of the perform_scan they call (src/scan_control.py lines 16-31); the
\* steps of the scan that follow run inside this handler
RootUISaveAndStartScan ==
    /\ ~RootUIBusy
    /\ \E angle \in RootUIAngles, cams \in RootUICameraLists :
        /\ angle_per_photo' = angle
        /\ num_steps' = RootUINumSteps[angle]
        /\ cameras' = cams
    /\ photo_mode' = "immediate"
    /\ total_steps_per_rev' = steps_per_rev * microsteps
    /\ current_step' = 0
    /\ tt' = NoCall
    /\ _stop' = FALSE
    /\ log' = NewLog
    /\ step' = 0
    /\ axis_idx' = 1
    /\ pc' = "root_check"
    /\ UNCHANGED <<photoVars, uiVars, hist, calls, faults>>

\* the user presses Stop Scan: Qt queues the click (line 68 connects it to
\* stop_scan)
RootUIClickStop ==
    /\ clicks < MaxClicks
    /\ clicks' = clicks + 1
    /\ log' = IF /\ log.stop_step = -1
                 /\ \/ pc = "root_check" /\ step < num_steps
                    \/ pc \in {"root_rotate", "root_capture"}
                            /\ step + 1 < num_steps
              THEN [log EXCEPT !.stop_step = step,
                               !.stop_len = Len(log.events),
                               !.stop_in_run = TRUE]
              ELSE log
    /\ UNCHANGED <<photoVars, ttVars, angle_per_photo, num_steps, cameras,
                   photo_mode, _stop, pc, step, axis_idx, faults,
                   scan_process, runner, start_enabled, stop_enabled,
                   timer_active, ended, angle_spin, num_photos_label,
                   config_angle, autodetect>>

\* stop_scan of src/scan_ui.py, lines 126-130, dispatched by the event loop
RootUIStopScan ==
    /\ ~RootUIBusy
    /\ clicks > 0
    /\ clicks' = clicks - 1
    /\ _stop' = IF pc # "root_none" THEN TRUE ELSE _stop
    /\ UNCHANGED <<photoVars, ttVars, angle_per_photo, num_steps, cameras,
                   photo_mode, pc, step, axis_idx, log, faults,
                   scan_process, runner, start_enabled, stop_enabled,
                   timer_active, ended, angle_spin, num_photos_label,
                   config_angle, autodetect>>

RootUINext ==
    \/ RootUISaveAndStartScan
    \/ RootUIClickStop
    \/ RootUIStopScan
    \/ RootLoopCheck
    \/ RootRotate
    \/ RootCapture

SpecRootUI == RootUIInit /\ [][RootUINext]_vars

(***************************************************************************)
(* PhotoController ("3D Plant Scan - code/photo_control.py").  A path is a  *)
(* folder (its components) and a name (its pieces); gphoto2 is the         *)
(* external capture backend, free to fail.                                 *)
(***************************************************************************)
MaxPhotoCalls == 3

\* os.makedirs(folder, exist_ok=True): the folder and its parents
Makedirs(dirs, folder) ==
    dirs \cup {SubSeq(folder, 1, k) : k \in 1..Len(folder)}

\* lines 66-68, 74-76, 117-118, 147-148:
\* if folder and not os.path.exists(folder): os.makedirs(folder)
EnsureFolder(f, folder) ==
    IF folder # <<>> /\ folder \notin f.dirs
    THEN [f EXCEPT !.dirs = Makedirs(@, folder)]
    ELSE f

\* a file written or moved to path, replacing what was there
WriteFile(f, path, content) ==
    [f EXCEPT !.files = {x \in @ : x.path # path}
                            \cup {[path |-> path, content |-> content]}]

\* line 60: self.camera_map.get(axis)
PortOf(axis) == IF axis \in DOMAIN camera_map THEN camera_map[axis] ELSE PyNone

\* a port gphoto2 can talk to
IsRealPort(port) == port \notin {PyNone, "", "None", "Fake Camera"}

\* what a PhotoController call starts from
World ==
    [raised |-> "none", fs |-> fs, gphoto |-> gphoto, card |-> card,
     tried |-> {}, failed |-> {}, moved |-> {}, deleted |-> {},
     del_failed |-> {}]

\* capture with the folder made before the camera map is looked at
capture_folder_first(w, axis, filename, gphoto_ok) ==
    LET port == PortOf(axis)
        w0   == [w EXCEPT !.fs = EnsureFolder(@, filename.folder)]
    IN  IF port \in {PyNone, ""} \/ port = "None"
        THEN [w0 EXCEPT !.raised = "No camera mapped"]
        ELSE IF port = "Fake Camera"
        THEN [w0 EXCEPT !.fs = WriteFile(@, filename, "FAKE PHOTO")]
        ELSE LET w1 == [w0 EXCEPT !.gphoto =
                            Append(@, [port |-> port,
                                       cmd |-> IF photo_mode = "sdcard"
                                               THEN "--capture-image"
                                               ELSE "--capture-image-and-download"])]
             IN  IF ~gphoto_ok
                 THEN [w1 EXCEPT !.raised = "gphoto2 capture failed"]
                 ELSE IF photo_mode = "sdcard"
                 THEN [w1 EXCEPT !.card[axis] = @ + 1]
                 ELSE [w1 EXCEPT !.fs = WriteFile(@, filename, "photo")]

\* capture without the "Fake Camera" branch
capture_no_fake(w, axis, filename, gphoto_ok) ==
    LET port == PortOf(axis)
    IN  IF port \in {PyNone, ""} \/ port = "None"
        THEN [w EXCEPT !.raised = "No camera mapped"]
        ELSE LET w1 == [w EXCEPT !.fs = EnsureFolder(@, filename.folder),
                                 !.gphoto =
                            Append(@, [port |-> port,
                                       cmd |-> IF photo_mode = "sdcard"
                                               THEN "--capture-image"
                                               ELSE "--capture-image-and-download"])]
             IN  IF ~gphoto_ok
                 THEN [w1 EXCEPT !.raised = "gphoto2 capture failed"]
                 ELSE IF photo_mode = "sdcard"
                 THEN [w1 EXCEPT !.card[axis] = @ + 1]
                 ELSE [w1 EXCEPT !.fs = WriteFile(@, filename, "photo")]

\* capture(axis, filename), lines 59-108
capture(w, axis, filename, gphoto_ok) ==
    LET port == PortOf(axis)
    IN  IF port \in {PyNone, ""} \/ port = "None"
        THEN [w EXCEPT !.raised = "No camera mapped"]
        ELSE IF port = "Fake Camera"
        THEN [w EXCEPT !.fs = WriteFile(EnsureFolder(@, filename.folder),
                                        filename, "FAKE PHOTO")]
        ELSE LET w1 == [w EXCEPT !.fs = EnsureFolder(@, filename.folder),
                                 !.gphoto =
                            Append(@, [port |-> port,
                                       cmd |-> IF photo_mode = "sdcard"
                                               THEN "--capture-image"
                                               ELSE "--capture-image-and-download"])]
             IN  IF ~gphoto_ok
                 THEN [w1 EXCEPT !.raised = "gphoto2 capture failed"]
                 ELSE IF photo_mode = "sdcard"
                 THEN [w1 EXCEPT !.card[axis] = @ + 1]
                 ELSE [w1 EXCEPT !.fs = WriteFile(@, filename, "photo")]

\* lines 146-152: os.path.join(label, axis, f"axis {axis} - angle{angle:03d}.jpg")
OutPath(label, axis, n) ==
    [folder |-> <<label, axis>>,
     name   |-> <<"axis ", axis, " - angle">> \o Pad3(Digits(n)) \o <<".jpg">>]

\* lines 149-154: the images of the temporary folder, in name order, moved
\* to their names in the output folder
RECURSIVE MoveImages(_, _, _, _, _, _)
MoveImages(f, label, axis, idx, n, angle) ==
    IF idx >= n THEN f
    ELSE MoveImages(WriteFile(f, OutPath(label, axis, OutAngle(idx, angle)),
                              "photo"),
                    label, axis, idx + 1, n, angle)

\* the loop of download_all with a failure of the delete step raised
RECURSIVE download_axes_delete_raises(_, _, _, _, _, _)
download_axes_delete_raises(w, axes, label, angle, get_ok, del_ok) ==
    IF axes = <<>> THEN w
    ELSE LET axis     == Head(axes)
             port     == camera_map[axis]
             temp_dir == <<"/tmp", label \o "_" \o axis>>
             w1 == [w EXCEPT !.fs = EnsureFolder(@, temp_dir),
                             !.gphoto = Append(@, [port |-> port,
                                                   cmd |-> "--get-all-files"]),
                             !.tried = @ \cup {axis}]
         IN  IF ~get_ok[axis]
             THEN [w1 EXCEPT !.raised = "gphoto2 download failed",
                             !.failed = @ \cup {axis}]
             ELSE LET w2 == [w1 EXCEPT
                                !.fs = MoveImages(EnsureFolder(@, <<label, axis>>),
                                                  label, axis, 0, w.card[axis],
                                                  angle),
                                !.moved = @ \cup {axis},
                                !.gphoto = Append(@, [port |-> port,
                                                      cmd |-> "--delete-all-files"]),
                                !.deleted = @ \cup {axis}]
                  IN  IF ~del_ok[axis]
                      THEN [w2 EXCEPT !.raised = "delete failed",
                                      !.del_failed = @ \cup {axis}]
                      ELSE download_axes_delete_raises(
                               [w2 EXCEPT !.card[axis] = 0,
                                          !.fs.dirs = @ \ {temp_dir}],
                               Tail(axes), label, angle, get_ok, del_ok)

\* lines 115-182: for axis, port in self.camera_map.items()
RECURSIVE download_axes(_, _, _, _, _, _)
download_axes(w, axes, label, angle, get_ok, del_ok) ==
    IF axes = <<>> THEN w
    ELSE LET axis     == Head(axes)
             port     == camera_map[axis]
             temp_dir == <<"/tmp", label \o "_" \o axis>>
             w1 == [w EXCEPT !.fs = EnsureFolder(@, temp_dir),
                             !.gphoto = Append(@, [port |-> port,
                                                   cmd |-> "--get-all-files"]),
                             !.tried = @ \cup {axis}]
         IN  IF ~get_ok[axis]
             THEN [w1 EXCEPT !.raised = "gphoto2 download failed",
                             !.failed = @ \cup {axis}]
             ELSE download_axes(
                      [w1 EXCEPT
                          !.fs = [MoveImages(EnsureFolder(@, <<label, axis>>),
                                             label, axis, 0, w.card[axis], angle)
                                      EXCEPT !.dirs = @ \ {temp_dir}],
                          !.moved = @ \cup {axis},
                          !.gphoto = Append(@, [port |-> port,
                                                cmd |-> "--delete-all-files"]),
                          !.deleted = @ \cup {axis},
                          !.del_failed = IF del_ok[axis] THEN @ ELSE @ \cup {axis},
                          !.card[axis] = IF del_ok[axis] THEN 0 ELSE @],
                      Tail(axes), label, angle, get_ok, del_ok)

\* the keys of camera_map in the order load_camera_config inserts them
MapAxes == SelectSeq(AXES, LAMBDA a : a \in DOMAIN camera_map)

\* download_all(label, angle_per_photo), lines 110-182
download_all(w, label, angle, get_ok, del_ok) ==
    download_axes(w, MapAxes, label, angle, get_ok, del_ok)

(***************************************************************************)
(* Direct use of a PhotoController: any axis, destination and angle, the   *)
(* backend free to fail at each invocation.                                *)
(***************************************************************************)
PhotoMaps ==
    {("Z" :> "usb:001,004"),
     ("Z" :> "usb:001,004") @@ ("Y" :> "usb:001,005"),
     ("Z" :> "Fake Camera") @@ ("Y" :> "usb:001,005"),
     ("Z" :> "usb:001,004") @@ ("Y" :> "None"),
     ("Y" :> "Fake Camera") @@ ("Oblique" :> "")}

CaptureFiles ==
    {[folder |-> <<"out", "Z">>, name |-> <<"x.jpg">>],
     [folder |-> <<>>, name |-> <<"y.jpg">>]}

DownloadAngles == {DefaultDownloadAngle, <<10, 1>>, <<45, 2>>}

\* PhotoController.__init__, lines 10-20, and _set_camera_sdcard, lines 22-34
PhotoConstruct(map, mode) ==
    /\ camera_map = map
    /\ photo_mode = mode
    /\ fs = NoFiles
    /\ gphoto = IF mode = "sdcard"
                THEN [i \in 1..Len(SelectSeq(AXES, LAMBDA a : a \in DOMAIN map)) |->
                        [port |-> map[SelectSeq(AXES, LAMBDA a : a \in DOMAIN map)[i]],
                         cmd |-> "--set-config"]]
                ELSE <<>>
    /\ card = [a \in DOMAIN map |-> 0]
    /\ ph = NoPhotoCall
    /\ photo_calls = 0

PhotoInit ==
    /\ \E map \in PhotoMaps, mode \in {"immediate", "sdcard"} :
        PhotoConstruct(map, mode)
    /\ TTConstruct
    /\ hist = Other
    /\ calls = 0
    /\ angle_per_photo = <<10, 1>>
    /\ num_steps = 36
    /\ cameras = <<>>
    /\ _stop = FALSE
    /\ pc = "idle"
    /\ step = 0
    /\ axis_idx = 0
    /\ log = NewLog
    /\ faults = 0
    /\ UIUnused

PhotoCapture ==
    /\ photo_calls < MaxPhotoCalls
    /\ \E axis \in {"Z", "Y", "Oblique"}, filename \in CaptureFiles,
          gphoto_ok \in BOOLEAN :
        \E r \in {capture(World, axis, filename, gphoto_ok)} :
            /\ fs' = r.fs
            /\ gphoto' = r.gphoto
            /\ card' = r.card
            /\ ph' = [NoPhotoCall EXCEPT
                        !.op = "capture", !.axis = axis, !.filename = filename,
                        !.raised = r.raised,
                        !.backend = Len(r.gphoto) - Len(gphoto),
                        !.new_dirs = r.fs.dirs \ fs.dirs,
                        !.new_files = r.fs.files \ fs.files]
    /\ photo_calls' = photo_calls + 1
    /\ UNCHANGED <<camera_map, ttVars, scanVars, uiVars>>

PhotoDownloadAll ==
    /\ photo_calls < MaxPhotoCalls
    /\ \E angle \in DownloadAngles,
          get_ok \in [DOMAIN camera_map -> BOOLEAN],
          del_ok \in [DOMAIN camera_map -> BOOLEAN] :
        /\ \A a \in DOMAIN camera_map :
            ~IsRealPort(camera_map[a]) => ~get_ok[a] /\ ~del_ok[a]
        /\ \E r \in {download_all(World, "scan", angle, get_ok, del_ok)} :
            /\ fs' = r.fs
            /\ gphoto' = r.gphoto
            /\ card' = r.card
            /\ ph' = [NoPhotoCall EXCEPT
                        !.op = "download_all", !.raised = r.raised,
                        !.angle = angle, !.counts = card,
                        !.backend = Len(r.gphoto) - Len(gphoto),
                        !.new_dirs = r.fs.dirs \ fs.dirs,
                        !.new_files = r.fs.files \ fs.files,
                        !.tried = r.tried, !.failed = r.failed,
                        !.moved = r.moved, !.deleted = r.deleted,
                        !.del_failed = r.del_failed]
    /\ photo_calls' = photo_calls + 1
    /\ UNCHANGED <<camera_map, ttVars, scanVars, uiVars>>

PhotoNext == PhotoCapture \/ PhotoDownloadAll

SpecPhoto == PhotoInit /\ [][PhotoNext]_vars

(***************************************************************************)
(* The front-end ("3D Plant Scan - code/scan_ui.py"): Start Scan runs      *)
(* scan_control.py as a child process, Stop Scan terminates it.            *)
(***************************************************************************)
\* angle_spin values (0.5 .. 180.0) and camera assignments saved to
\* config.json, and the photo_mode config.json may hold
UIAngles == {<<90, 1>>, <<120, 1>>, <<180, 1>>}
UICameraLists == {<<"Z">>, <<"Z", "Y">>}
UIModes == {"immediate", "sdcard"}

\* more angle_spin values: the lowest, ones that do not divide 360, the
\* default
ConfigAngles == {<<1, 2>>, <<7, 2>>, <<7, 1>>, <<10, 1>>, <<100, 1>>}

\* scan_control.py line 42 for each of these angles
UINumSteps == [angle \in UIAngles \cup ConfigAngles |-> NumSteps(angle)]

\* update_calculations, line 243: int(math.ceil(360.0 / angle))
PhotosPerCameraShown(angle) ==
    LET x == FDiv(FloatOfInt(360), AngleFloat(angle))
    IN  IF -x.e < MantBits /\ BigShl(BigShr(x.m, -x.e), -x.e) # x.m
        THEN IntOfFloat(x) + 1
        ELSE IntOfFloat(x)

\* update_calculations, lines 236-244: the text put in num_photos_label
NumPhotosText == [angle \in UIAngles \cup ConfigAngles |->
                    IF angle[1] <= 0 THEN <<"Invalid angle">>
                    ELSE Digits(PhotosPerCameraShown(angle))]

\* cam_autodetect.py line 59: 360 // angle if angle > 0 else 0, the floor
\* of the quotient (exact for these angles: 360 and the angle are multiples
\* of 0.5, so the remainder and the division are computed without rounding)
PhotosPerCameraWritten(angle) ==
    IF angle[1] > 0 THEN (360 * angle[2]) \div angle[1] ELSE 0

\* cam_autodetect.py, update_config_with_cameras, lines 57-60, for the angle
\* config.json holds
Autodetect(angle) ==
    [angle |-> angle, photos_per_camera |-> PhotosPerCameraWritten(angle)]

\* ScanUI.__init__, lines 54-79: populate_camera_list runs cam_autodetect,
\* loads config.json, sets angle_spin from it and updates the figures
UIConstruct(angle) ==
    /\ UIWidgets
    /\ config_angle = angle
    /\ autodetect = Autodetect(angle)
    /\ angle_spin = angle
    /\ num_photos_label = NumPhotosText[angle]

\* scan_control.py run as a script, lines 117-141: read config.json and
\* build a ScanController, which builds its own TurntableController
Launch(angle, cams, mode) ==
    /\ angle_per_photo' = angle
    /\ num_steps' = UINumSteps[angle]
    /\ cameras' = cams
    /\ photo_mode' = mode
    /\ _stop' = FALSE
    /\ total_steps_per_rev' = steps_per_rev * microsteps
    /\ current_step' = 0
    /\ tt' = NoCall
    /\ pc' = "idle"
    /\ step' = 0
    /\ axis_idx' = 0
    /\ log' = NewLog
    /\ faults' = 0
    /\ UNCHANGED <<hist, calls, photoVars>>

\* release_motor, lines 255-259: subprocess.run of scan_control.py with the
\* argument --cleanup, which the script never reads; the front-end waits
\* for it
release_motor ==
    /\ runner' = "cleanup"
    /\ \E cams \in UICameraLists, mode \in UIModes :
        Launch(config_angle, cams, mode)

UIInit ==
    /\ TTConstruct
    /\ hist = Other
    /\ calls = 0
    /\ angle_per_photo = <<10, 1>>
    /\ num_steps = 36
    /\ cameras = <<>>
    /\ photo_mode = "immediate"
    /\ _stop = FALSE
    /\ pc = "dead"
    /\ step = 0
    /\ axis_idx = 0
    /\ log = NewLog
    /\ faults = 0
    /\ \E angle \in UIAngles : UIConstruct(angle)
    /\ PhotoUnused

\* start_scan, lines 261-272 (the front-end handles events only while no
\* subprocess.run is pending); save_camera_assignments writes the angle of
\* angle_spin to config.json, where the launched script reads it
UIStartScan ==
    /\ start_enabled
    /\ runner # "cleanup"
    /\ config_angle' = angle_spin
    /\ UNCHANGED <<angle_spin, num_photos_label, autodetect, clicks>>
    /\ IF scan_process = "running"
       THEN UNCHANGED <<ttVars, scanVars, photoVars, scan_process, runner,
                        start_enabled, stop_enabled, timer_active, ended>>
       ELSE /\ scan_process' = "running"
            /\ runner' = "popen"
            /\ \E cams \in UICameraLists, mode \in UIModes :
                Launch(angle_spin, cams, mode)
            /\ start_enabled' = FALSE
            /\ stop_enabled' = TRUE
            /\ timer_active' = TRUE
            /\ ended' = NotEnded

\* stop_scan, lines 274-288
UIStopScan ==
    /\ stop_enabled
    /\ runner # "cleanup"
    /\ UNCHANGED feVars
    /\ IF scan_process # "running"
       THEN /\ release_motor
            /\ UNCHANGED <<scan_process, start_enabled, stop_enabled,
                           timer_active, ended>>
       ELSE /\ scan_process' = "terminated"
            /\ ended' = [how |-> "terminated", resets |-> log.resets,
                         current_step |-> current_step]
            /\ timer_active' = FALSE
            /\ start_enabled' = TRUE
            /\ stop_enabled' = FALSE
            /\ release_motor

\* check_scan_status, lines 290-296, on a timer tick
UICheckScanStatus ==
    /\ timer_active
    /\ runner # "cleanup"
    /\ scan_process \notin {"None", "running"}
    /\ timer_active' = FALSE
    /\ start_enabled' = TRUE
    /\ stop_enabled' = FALSE
    /\ scan_process' = "None"
    /\ UNCHANGED <<ttVars, scanVars, photoVars, runner, ended, feVars>>

\* perform_scan has returned: the script ends and its process exits
ProcessExit ==
    /\ pc = "returned"
    /\ runner # "none"
    /\ pc' = "dead"
    /\ runner' = "none"
    /\ IF runner = "popen"
       THEN /\ scan_process' = "exited"
            /\ ended' = [how |-> "returned", resets |-> log.resets,
                         current_step |-> current_step]
       ELSE UNCHANGED <<scan_process, ended>>
    /\ UNCHANGED <<ttVars, photoVars, angle_per_photo, num_steps, cameras,
                   photo_mode, _stop, step, axis_idx, log, faults,
                   start_enabled, stop_enabled, timer_active, feVars>>

UINext ==
    \/ UIStartScan
    \/ UIStopScan
    \/ UICheckScanStatus
    \/ ProcessExit
    \/ PerformScan
    \/ ClearStop
    \/ InitialCapture
    \/ LoopCheck
    \/ Rotate
    \/ Capture
    \/ Reset
    \/ Download

SpecUI == UIInit /\ [][UINext]_vars

(***************************************************************************)
(* The figures of the front-end: the angle in the spin box, the "Photos    *)
(* per Camera" label, config.json as Save Config and cam_autodetect write  *)
(* it, and the controller the launched script builds from it.              *)
(***************************************************************************)
ConfigInit ==
    /\ TTConstruct
    /\ hist = Other
    /\ calls = 0
    /\ ScanUnused
    /\ \E angle \in ConfigAngles : UIConstruct(angle)
    /\ PhotoUnused

\* on_config_changed, lines 217-219, after angle_spin got a new value
UIOnConfigChanged ==
    /\ runner # "cleanup"
    /\ \E angle \in ConfigAngles :
        /\ angle_spin' = angle
        /\ num_photos_label' = NumPhotosText[angle]
    /\ UNCHANGED <<ttVars, scanVars, photoVars, scan_process, runner,
                   start_enabled, stop_enabled, timer_active, ended,
                   config_angle, autodetect, clicks>>

\* save_camera_assignments, lines 250-253: self.config, with the angle of
\* angle_spin and the photos_per_camera it was loaded with, goes to
\* config.json
UISaveConfig ==
    /\ runner # "cleanup"
    /\ config_angle' = angle_spin
    /\ UNCHANGED <<ttVars, scanVars, photoVars, scan_process, runner,
                   start_enabled, stop_enabled, timer_active, ended,
                   angle_spin, num_photos_label, autodetect, clicks>>

\* refresh_cameras, lines 206-211: populate_camera_list runs cam_autodetect
\* on config.json, loads it, sets angle_spin from it and updates the figures
UIRefreshCameras ==
    /\ runner # "cleanup"
    /\ autodetect' = Autodetect(config_angle)
    /\ angle_spin' = config_angle
    /\ num_photos_label' = NumPhotosText[config_angle]
    /\ UNCHANGED <<ttVars, scanVars, photoVars, scan_process, runner,
                   start_enabled, stop_enabled, timer_active, ended,
                   config_angle, clicks>>

ConfigNext ==
    \/ UIOnConfigChanged
    \/ UISaveConfig
    \/ UIRefreshCameras
    \/ UIStartScan

SpecConfig == ConfigInit /\ [][ConfigNext]_vars

(***************************************************************************)
(* Properties of the turntable controller (checked under SpecTT)           *)
(***************************************************************************)

\* C1: when TurnStep raises during move_degrees or move_to_step,
\* current_step after the call equals current_step before it; current_step
\* changes only in a call whose TurnStep was issued and returned normally.
C1_FailedMoveKeepsStep ==
    tt.op \in {"move_degrees", "move_to_step"} =>
        /\ tt.raised => current_step = tt.pre
        /\ current_step # tt.pre => tt.called /\ ~tt.raised

C1_Witness ==
    /\ tt.op = "move_degrees"
    /\ tt.called /\ tt.raised
    /\ tt.pre # 0
    /\ current_step = tt.pre

\* C2: a move_degrees call whose TurnStep raised is told apart by its caller
\* from one that succeeded: it does not return the same plain None.
C2_FailureSurfaced ==
    (tt.op = "move_degrees" /\ tt.raised) => tt.result # "None"

\* C6: from current_step = 0 with a motor that never fails, N calls of
\* move_degrees(d) followed by one reset_position leave current_step = 0.
C6_MovesThenResetReturnToZero ==
    hist.kind = "moves_reset" => current_step = 0

\* C7: 0 <= current_step < total_steps_per_rev in every reachable state, and
\* total_steps_per_rev keeps the value __init__ gave it.
C7_StepInRange ==
    /\ current_step \in 0..(total_steps_per_rev - 1)
    /\ total_steps_per_rev = steps_per_rev * microsteps

C7_Witness ==
    /\ tt.op = "move_degrees"
    /\ tt.called /\ ~tt.raised
    /\ tt.pre + tt.steps_to_move < -total_steps_per_rev
    /\ current_step # tt.pre

\* C8: a move_degrees call whose converted microstep count is 0 issues no
\* TurnStep call and leaves current_step unchanged.
C8_ZeroMoveIsNoOp ==
    (tt.op = "move_degrees" /\ tt.steps_to_move = 0) =>
        /\ ~tt.called
        /\ current_step = tt.pre

C8_Witness ==
    /\ tt.op = "move_degrees"
    /\ tt.arg = <<1, 100>>
    /\ tt.steps_to_move = 0
    /\ ~tt.called
    /\ tt.pre # 0

\* the integer nearest to num/den (den > 0), ties to the even one
NearestInt(num, den) ==
    LET fl == num \div den
        r2 == 2 * (num - fl * den)
    IN  IF r2 < den THEN fl
        ELSE IF r2 > den THEN fl + 1
        ELSE IF fl % 2 = 0 THEN fl ELSE fl + 1

C3_FailedMoveAbortsScan ==
    log.move_failed => ~log.after_fail

\* C4: in every execution of perform_scan, however the loop ended and
\* whatever failed, reset_position is called exactly once, after the last
\* rotation and capture of the loop and before perform_scan returns.
C4_ResetExactlyOnce ==
    /\ pc \in {"initial", "check", "rotate", "capture", "reset"} =>
        log.resets = 0
    /\ pc \in {"download", "returned"} =>
        /\ log.resets = 1
        /\ log.cap_at_reset = log.captures
        /\ log.rot_at_reset = log.rotations

C4_Witness ==
    /\ pc = "returned"
    /\ log.broke
    /\ log.capture_failed
    /\ log.move_failed
    /\ log.rotations > 1
    /\ log.resets = 1

\* C10 (as stated): an uncancelled scan with A axes and stepCount S makes
\* S*A capture attempts in the main loop plus A at angle 0, (S+1)*A in all.
C10_CaptureCountAsStated ==
    (pc = "returned" /\ ~log.broke) =>
        /\ log.loop_captures = num_steps * Len(cameras)
        /\ log.captures = (num_steps + 1) * Len(cameras)

\* C10 (amended): an uncancelled scan with A axes and stepCount S >= 1 makes
\* A capture attempts at angle 0 plus (S-1)*A in the main loop, S*A in all
\* (72 for A = 2, S = 36), whichever captures fail.
C10_CaptureCount ==
    (pc \in {"reset", "download", "returned"} /\ ~log.broke
        /\ num_steps >= 1) =>
        /\ log.initial = Len(cameras)
        /\ log.loop_captures = (num_steps - 1) * Len(cameras)
        /\ log.captures = num_steps * Len(cameras)
        /\ (Len(cameras) = 2 /\ num_steps = 36) => log.captures = 72

C10_Witness ==
    /\ pc = "returned"
    /\ ~log.broke
    /\ Len(cameras) = 2
    /\ num_steps = 36
    /\ log.capture_failed
    /\ log.captures = 72

\* The i-th capture attempt or move of a run in which no capture fails and
\* no cancellation is requested: the initial photo on each axis, then for
\* step = 1 .. num_steps - 1 one move followed by a photo on each axis.
ScheduleAt(i) ==
    LET A   == Len(cameras)
        j   == i - A - 1
        off == j % (A + 1)
    IN  IF i <= A
        THEN [kind |-> "capture", step |-> 0, axis |-> cameras[i]]
        ELSE IF off = 0
        THEN [kind |-> "move", step |-> j \div (A + 1) + 1, axis |-> ""]
        ELSE [kind |-> "capture", step |-> j \div (A + 1) + 1,
              axis |-> cameras[off]]

ScheduleLen ==
    Len(cameras)
        + (IF num_steps >= 1 THEN (num_steps - 1) * (Len(cameras) + 1) ELSE 0)

\* C11: a capture failure on one axis at some step prevents neither the
\* capture attempt on a later axis of that step nor the rotation and the
\* capture attempts of a later step: whichever captures fail, the attempts
\* and moves made are those of a run in which no capture fails.
C11_CaptureFailureSkipsNothing ==
    /\ \A i \in 1..Len(log.events) :
        [kind |-> log.events[i].kind, step |-> log.events[i].step,
         axis |-> log.events[i].axis] = ScheduleAt(i)
    /\ (pc \in {"reset", "download", "returned"} /\ ~log.broke) =>
        Len(log.events) = ScheduleLen

C11_Witness ==
    /\ pc = "returned"
    /\ ~log.broke
    /\ log.early_fail
    /\ Len(cameras) = 3
    /\ num_steps = 16
    /\ Len(log.events) = ScheduleLen

\* C12: when stop_scan sets the flag while step k is in progress, the move
\* and the captures of step k are completed, no rotation or capture of step
\* k + 1 or later is issued, and reset_position is then called.
C12_StopEndsWithinOneStep ==
    log.stop_step # -1 =>
        /\ \A i \in (log.stop_len + 1)..Len(log.events) :
            log.events[i].step = log.stop_step
        /\ pc \in {"rotate", "capture"} => step = log.stop_step
        /\ pc \in {"reset", "download", "returned"} =>
            /\ log.rotations = log.stop_step
            /\ log.loop_captures = log.stop_step * Len(cameras)
        /\ pc \in {"download", "returned"} =>
            /\ log.resets = 1
            /\ log.rot_at_reset = log.stop_step

C12_Witness ==
    /\ pc = "returned"
    /\ log.stop_step = 10
    /\ num_steps = 36
    /\ log.broke
    /\ log.stop_len < Len(log.events)
    /\ log.resets = 1

\* C19: when a scan in sdcard mode with angle_per_photo a runs its bulk
\* download, the file at index i (in name order) of each axis gets the name
\* of the angle int(i * a): download_all renames with the session's own
\* angle_per_photo.
C19_RenameUsesSessionAngle ==
    log.downloads >= 1 =>
        \A k \in 1..Len(cameras) :
            \A idx \in 0..(num_steps - 1) :
                OutPath("object", cameras[k], OutAngle(idx, log.download_angle))
                    = OutPath("object", cameras[k], OutAngle(idx, angle_per_photo))

\* C20: perform_scan calls download_all only in sdcard mode and only after
\* reset_position has been called, and a failure of download_all does not
\* leave perform_scan, which returns normally.
C20_DownloadOnlySdcardAfterReset ==
    /\ log.downloads >= 1 =>
        /\ photo_mode = "sdcard"
        /\ log.downloads = 1
        /\ log.resets_at_download = 1
    /\ pc = "returned" => log.downloads = (IF photo_mode = "sdcard" THEN 1 ELSE 0)
    /\ log.download_failed => pc = "returned" /\ ~log.raised
    /\ pc # "raised"

C20_Witness ==
    /\ pc = "returned"
    /\ photo_mode = "sdcard"
    /\ log.download_failed
    /\ log.downloads = 1
    /\ log.resets = 1
    /\ log.rotations > 0

(***************************************************************************)
(* Properties of ScanController.__init__ (checked under SpecCtor)          *)
(***************************************************************************)

\* n * a <= 360 for the float a = a.m * 2^a.e, exactly
TimesAtMost360(n, a) ==
    n = 0 \/ BigGe(BigShl(BigOfNat(360), -a.e), BigMulSmall(a.m, n))

\* n = floor(360 / a) for the exact value of the float a
IsFloorOf360Over(n, a) == TimesAtMost360(n, a) /\ ~TimesAtMost360(n + 1, a)

\* n * a * (1 - 2^-MantBits) <= 360: n * a exceeds 360 by no more than one
\* rounding of the quotient can hide
TimesAtMost360Rounded(n, a) ==
    \/ TimesAtMost360(n, a)
    \/ BigGe(BigMulSmall(a.m, n),
             BigShl(BigSub(BigMulSmall(a.m, n), BigShl(BigOfNat(360), -a.e)),
                    MantBits))

\* C14 (as stated): for every positive angle_per_photo, num_steps equals
\* floor(360 / angle_per_photo).
C14_NumStepsIsFloor ==
    calls = 1 => IsFloorOf360Over(num_steps, AngleFloat(angle_per_photo))

\* C14 (amended): num_steps is int() of the double-precision quotient
\* 360 / angle_per_photo: never below floor(360 / angle_per_photo), above
\* it (by one) only when the exact quotient is within one rounding below
\* an integer, and equal to it for every multiple of 0.5: 36 for 10, 51
\* for 7.  A quotient that is not an integer is no error.
C14_NumSteps ==
    calls = 1 =>
        LET a == AngleFloat(angle_per_photo)
        IN  /\ ~TimesAtMost360(num_steps + 1, a)
            /\ TimesAtMost360Rounded(num_steps, a)
            /\ angle_per_photo[2] \in {1, 2} =>
                /\ num_steps = (360 * angle_per_photo[2]) \div angle_per_photo[1]
                /\ IsFloorOf360Over(num_steps, a)
            /\ angle_per_photo = <<10, 1>> => num_steps = 36
            /\ angle_per_photo = <<7, 1>> => num_steps = 51

C14_Witness ==
    /\ calls = 1
    /\ angle_per_photo = <<360, 7>>
    /\ num_steps = 7
    /\ ~IsFloorOf360Over(7, AngleFloat(angle_per_photo))
    /\ IsFloorOf360Over(6, AngleFloat(angle_per_photo))

(***************************************************************************)
(* Properties of the photo controller (checked under SpecPhoto)            *)
(***************************************************************************)

\* C15: capture on an axis whose camera is "Fake Camera" never invokes the
\* gphoto2 backend, in either storage mode, and creates the placeholder
\* file at the destination path.
C15_FakeCameraNoBackend ==
    (ph.op = "capture" /\ PortOf(ph.axis) = "Fake Camera") =>
        /\ ph.backend = 0
        /\ ph.raised = "none"
        /\ [path |-> ph.filename, content |-> "FAKE PHOTO"] \in fs.files
        /\ ph.filename.folder # <<>> => ph.filename.folder \in fs.dirs

C15_Witness ==
    /\ ph.op = "capture"
    /\ PortOf(ph.axis) = "Fake Camera"
    /\ photo_mode = "sdcard"
    /\ ph.filename.folder = <<"out", "Z">>
    /\ [path |-> ph.filename, content |-> "FAKE PHOTO"] \in ph.new_files

\* C16: capture on an axis that has no entry in the camera map, or whose
\* entry is "None", fails with the unmapped-axis error without invoking the
\* backend and without creating any file or directory.
C16_UnmappedAxisFailsCleanly ==
    (ph.op = "capture" /\ PortOf(ph.axis) \in {PyNone, "None"}) =>
        /\ ph.raised = "No camera mapped"
        /\ ph.backend = 0
        /\ ph.new_dirs = {}
        /\ ph.new_files = {}

C16_Witness ==
    /\ ph.op = "capture"
    /\ PortOf(ph.axis) = "None"
    /\ ph.raised = "No camera mapped"
    /\ ph.filename.folder = <<"out", "Z">>
    /\ <<"out", "Z">> \notin fs.dirs

\* C17: in download_all over several mapped axes, a bulk-retrieval failure
\* on one axis does not stop the download of the others: every mapped axis
\* has its retrieval attempted, and every axis whose retrieval did not fail
\* has its rename/move and delete steps attempted.
C17_RetrievalFailureIsolated ==
    (/\ ph.op = "download_all"
     /\ Cardinality(DOMAIN camera_map) >= 2
     /\ \A a \in DOMAIN camera_map : IsRealPort(camera_map[a])) =>
        \A a \in DOMAIN camera_map :
            /\ a \in ph.tried
            /\ a \notin ph.failed => a \in ph.moved /\ a \in ph.deleted

\* C18: in download_all, a failure of the delete step on one axis is not
\* propagated: when no retrieval fails, the images of that axis and of
\* every other mapped axis are moved to their names and download_all
\* returns without error.
C18_DeleteFailureNotPropagated ==
    (ph.op = "download_all" /\ ph.failed = {}) =>
        /\ ph.raised = "none"
        /\ ph.moved = DOMAIN camera_map
        /\ ph.deleted = DOMAIN camera_map
        /\ \A a \in DOMAIN camera_map :
            \A idx \in 0..(ph.counts[a] - 1) :
                [path |-> OutPath("scan", a, OutAngle(idx, ph.angle)),
                 content |-> "photo"] \in fs.files

C18_Witness ==
    /\ ph.op = "download_all"
    /\ ph.failed = {}
    /\ ph.del_failed = {"Z"}
    /\ DOMAIN camera_map = {"Z", "Y"}
    /\ ph.counts["Z"] = 1
    /\ ph.counts["Y"] = 1
    /\ ph.raised = "none"
    /\ Cardinality(ph.new_files) = 2

\* position of an axis in the configured axis list
AxisPos(axis) == CHOOSE k \in 1..Len(cameras) : cameras[k] = axis

\* C13: in perform_scan (the root-level one and the one of "3D Plant Scan -
\* code"), the captures named with angle 0 are attempted before the first
\* move_degrees call, within each step the rotation precedes that step's
\* capture attempts, and the capture attempts of a step follow the order of
\* the configured axis list.
C13_ZeroCaptureRotationAxisOrder ==
    LET ev == log.events
    IN  /\ \A i \in 1..Len(ev) :
            (ev[i].kind = "capture" /\ ev[i].angle = 0) =>
                \A j \in 1..(i - 1) : ev[j].kind # "move"
        /\ \A i \in 1..Len(ev) :
            (ev[i].kind = "capture" /\ ev[i].in_loop) =>
                \E j \in 1..(i - 1) :
                    ev[j].kind = "move" /\ ev[j].step = ev[i].step
        /\ \A i \in 1..(Len(ev) - 1) :
            (/\ ev[i].kind = "capture"
             /\ ev[i + 1].kind = "capture"
             /\ ev[i].in_loop = ev[i + 1].in_loop) =>
                /\ ev[i + 1].step = ev[i].step
                /\ AxisPos(ev[i + 1].axis) = AxisPos(ev[i].axis) + 1

(***************************************************************************)
(* Properties of the front-end with its scan process (checked under        *)
(* SpecUI)                                                                 *)
(***************************************************************************)

\* C5: however a run started by Start Scan ends, Stop Scan included, a
\* reset_position is attempted for it before it is over: no run, stopped or
\* not, is over with the turntable at a non-zero offset and no reset
\* attempt.
C5_ResetAttemptedHoweverRunEnds ==
    (ended.how # "none" /\ ended.current_step # 0) => ended.resets >= 1

(***************************************************************************)
(* Further properties of the turntable controller (checked under SpecTT)   *)
(***************************************************************************)

\* C21: reset_position is idempotent: called with current_step = 0 it
\* issues no TurnStep call and leaves current_step at 0, and a
\* reset_position call that follows a reset_position call whose motor did
\* not fail issues no TurnStep call and leaves current_step as it was.
C21_ResetIdempotent ==
    /\ (tt.op = "reset_position" /\ tt.pre = 0) =>
            ~tt.called /\ current_step = 0
    /\ hist.kind = "reset_again" => ~tt.called /\ current_step = tt.pre

\* the residue of s modulo n: the one t in 0..n-1 that differs from s by a
\* multiple of n
Residue(s, n) ==
    CHOOSE t \in 0..(n - 1) : \E k \in -2..2 : s = k * n + t

\* C22: for every integer s, negative ones and ones beyond a revolution
\* included, move_to_step(s) with a succeeding motor commands |t - current_step|
\* microsteps, forward if t - current_step >= 0 and backward otherwise, with
\* t the residue of s modulo total_steps_per_rev, and ends with
\* current_step = t; when t is the current step no TurnStep call is issued.
C22_MoveToStepModular ==
    (tt.op = "move_to_step" /\ ~tt.raised) =>
        LET t == Residue(tt.arg[1], total_steps_per_rev)
        IN  /\ current_step = t
            /\ tt.called <=> t # tt.pre
            /\ tt.called =>
                /\ tt.steps = Abs(t - tt.pre)
                /\ tt.Dir = IF t - tt.pre >= 0 THEN "forward" ELSE "backward"

C22_Witness ==
    /\ tt.op = "move_to_step"
    /\ tt.arg = <<-1, 1>>
    /\ tt.called /\ ~tt.raised
    /\ tt.pre \notin {0, total_steps_per_rev - 1}
    /\ tt.Dir = "forward"
    /\ current_step = total_steps_per_rev - 1

(***************************************************************************)
(* Further properties of perform_scan (checked under SpecScan)             *)
(***************************************************************************)

\* the latest capture attempt or move of this run; every one of them is the
\* latest in the state that follows it
Latest == log.events[Len(log.events)]

\* the capture attempts made so far on one axis
CapturesOn(axis) ==
    Cardinality({i \in 1..Len(log.events) :
                    log.events[i].kind = "capture" /\ log.events[i].axis = axis})

C24_CancelledNotReportedComplete ==
    /\ (pc = "returned" /\ ~log.broke) => log.summary = "Scan complete."
    /\ (pc = "returned" /\ log.broke) => log.summary # "Scan complete."

\* C25: at every capture attempt of perform_scan the destination path is
\* label/axis/"camera{i} - {axis} - angle{NNN}.jpg", with i the 1-based
\* position of the axis in the configured axis list and NNN the integer
\* part of step * angle_per_photo, which is angle_per_photo times the number
\* of move_degrees calls issued so far in this run.
C25_CapturePathEncodesStep ==
    (log.events # <<>> /\ Latest.kind = "capture") =>
        LET e == Latest
            i == CHOOSE k \in 1..Len(cameras) : cameras[k] = e.axis
            NNN == (e.moves * angle_per_photo[1]) \div angle_per_photo[2]
            moves == Cardinality({j \in 1..Len(log.events) :
                                    log.events[j].kind = "move"})
        IN
                /\ e.moves = moves
                /\ e.step = moves
                /\ e.path.folder = <<"object", e.axis>>
                /\ e.path.name = <<"camera", Digit(i), " - ", e.axis, " - angle">>
                                    \o Pad3(Digits(NNN)) \o <<".jpg">>

C25_Witness ==
    /\ angle_per_photo = <<45, 2>>
    /\ cameras = <<"Y", "Oblique">>
    /\ Len(log.events) > 0
    /\ LET e == Latest
       IN  /\ e.kind = "capture"
           /\ e.step = 5
           /\ e.path = [folder |-> <<"object", "Oblique">>,
                        name |-> <<"camera", "2", " - ", "Oblique",
                                   " - angle", "1", "1", "2", ".jpg">>]

\* C26: every stop_scan call made from another execution context after
\* perform_scan has been entered is observed by the scan: the flag it set
\* is still set for as long as the run lasts, and so at the next
\* step-boundary check; it is never lost to the clearing of the flag at the
\* start of perform_scan.
C26_StopAfterEntryNotLost ==
    log.stop_in_run => _stop

\* C27: within one perform_scan run, for every axis and every angle the
\* front-end allows, the destination paths of two different steps (the
\* initial capture at 0 degrees included) differ: no capture attempt is
\* given the path of an earlier capture attempt of the same run.
C27_NoTwoStepsShareAPath ==
    ~log.overwrote

(***************************************************************************)
(* Properties of the front-ends                                            *)
(***************************************************************************)

\* C28: pressing Stop Scan in the front-end never starts a scan run: what
\* release_motor launches only releases the motor, it issues no turntable
\* rotation and no capture.
C28_StopScanStartsNoScan ==
    runner = "cleanup" => log.rotations = 0 /\ log.captures = 0

\* C30: for every angle per photo the front-end allows, the "Photos per
\* Camera" figure it displays equals the number of capture attempts per axis
\* of an uncancelled perform_scan for that angle (stepCount, by C23), and
\* equals the photos_per_camera that cam_autodetect writes to config.json
\* for that angle.
C30_PhotosPerCameraAgree ==
    /\ (runner = "popen" /\ angle_per_photo = angle_spin) =>
            num_photos_label = Digits(num_steps)
    /\ autodetect.angle = angle_spin =>
            num_photos_label = Digits(autodetect.photos_per_camera)

\* C29: in the in-process front-end, pressing Stop Scan while a scan
\* started by Start Scan has steps left makes that scan's loop end before
\* it has performed all of its steps.
C29_StopEndsInProcessScanEarly ==
    (pc = "returned" /\ log.stop_step # -1) =>
        /\ log.broke
        /\ log.rotations < num_steps

=============================================================================
